---- MODULE Spec2Model ----
(***************************************************************************)
(* A model of psshlib/task.py: the Task that supervises one child process  *)
(* (start, timedout, interrupted, cancel, running), its three stream       *)
(* handlers (handle_stdin, handle_stdout, handle_stderr) with their close  *)
(* methods, the line framer print_annotated_lines, and report.             *)
(*                                                                         *)
(* Bytes are modelled as the tokens "a" (any ordinary byte), "LF" and      *)
(* "CR"; a byte string is a sequence of tokens.  Python's None is the      *)
(* string "None" for handles and the empty sequence for exitstatus.        *)
(***************************************************************************)
EXTENDS Integers, Sequences, FiniteSets, TLC

VARIABLES
    \* ---- fields of Task (task.py:43-101) ----
    proc,           \* "None" or "Popen"
    killed,         \* BOOLEAN
    exitstatus,     \* <<>> for None, <<code>> otherwise
    failures,       \* sequence of strings
    inputbuffer,    \* the length of the stdin buffer (0: None or empty)
    byteswritten,
    outputbuffer,
    errorbuffer,
    fd_to_buffer,   \* [out |-> fragment, err |-> fragment]
    stdin, stdout, stderr,   \* "None" or "open"
    outfile, errfile,        \* "None" or "open"
    outstream, errstream,    \* what was written to the console sinks
    opts,           \* the option flags read at construction
    writer,         \* TRUE when a writer collaborator is passed to start
    \* ---- the collaborators and the child process ----
    registered,     \* descriptors registered with the IOMap
    unregisters,    \* number of iomap.unregister calls per descriptor
    child,          \* "unborn", "alive", "zombie" (exited, not reaped), "reaped"
    returncode,     \* the exit code of an exited child
    pipeOut, pipeErr,        \* bytes the child wrote and the task has not read
    outClosed, errClosed,    \* the child's end of the pipe is closed
    sigpending,     \* a SIGKILL was delivered to the group and not yet acted on
    killcalls,      \* number of os.kill calls made
    broken,         \* descriptors on which every read fails from now on
    py3,            \* TRUE: the interpreter separates bytes from str
    \* ---- history ----
    started,        \* start() was called
    lastOp,         \* the last operation and its outcome
    ret,            \* what running() returned, when it is the last operation
    fed,            \* the bytes given to print_annotated_lines so far
    callbacks,      \* number of handle_stdin calls counted by feedCallback
    sinklog         \* the sink operations of report(), when it is the last
                    \* operation: <<sink, "write", what>> and <<sink, "flush">>

vars == <<proc, killed, exitstatus, failures, inputbuffer, byteswritten,
          outputbuffer, errorbuffer, fd_to_buffer, stdin, stdout, stderr,
          outfile, errfile, outstream, errstream, opts, writer,
          registered, unregisters, child, returncode, pipeOut, pipeErr,
          outClosed, errClosed, sigpending, killcalls, broken, py3,
          started, lastOp, ret, fed, callbacks, sinklog>>

taskVars == <<proc, killed, exitstatus, failures, inputbuffer, byteswritten,
              outputbuffer, errorbuffer, fd_to_buffer, stdin, stdout, stderr,
              outfile, errfile, outstream, errstream, opts, writer>>

envVars == <<registered, unregisters, child, returncode, pipeOut, pipeErr,
             outClosed, errClosed, sigpending, killcalls, broken, py3>>

\* ---- bounds ----
\* Entries the failure list may hold before the operations that can append
\* without end (timedout and interrupted without a process, cancel, a
\* handler called on a closed or failing descriptor) are no longer taken.
MaxFailures == 2
\* Longest stdin buffer.
MaxInput == 2
\* Longest byte stream given to the line framer on its own.
MaxStream == 3
\* Longest stdin buffer of the input feed on its own.
MaxFeed == 5

\* ---- program constants ----
\* BUFFER_SIZE is 1 << 16 in the source; the model scales it to 2 bytes.
BUFFER_SIZE == 2
SIGKILL == 9

Min(a, b) == IF a < b THEN a ELSE b

\* ------------------------------------------------------------------------
\* The line framer
\* ------------------------------------------------------------------------

\* bytes.splitlines(): lines end at LF, CR or CR LF; the terminators are
\* dropped and no empty last line is produced.
RECURSIVE SplitFrom(_, _, _, _)
SplitFrom(buf, i, cur, acc) ==
    IF i > Len(buf)
    THEN IF cur = <<>> THEN acc ELSE Append(acc, cur)
    ELSE IF buf[i] = "LF"
         THEN SplitFrom(buf, i + 1, <<>>, Append(acc, cur))
    ELSE IF buf[i] = "CR"
         THEN IF i + 1 <= Len(buf) /\ buf[i + 1] = "LF"
              THEN SplitFrom(buf, i + 2, <<>>, Append(acc, cur))
              ELSE SplitFrom(buf, i + 1, <<>>, Append(acc, cur))
    ELSE SplitFrom(buf, i + 1, Append(cur, buf[i]), acc)

splitlines(buf) == SplitFrom(buf, 1, <<>>, <<>>)

\* OUTPUT_FORMATS: the host and the stream's arrow before the line.
OUTPUT_FORMATS(atype, line) ==
    <<"host", IF atype = "err" THEN "=>" ELSE "->">> \o line

UNTERMINATED_LINE_MARK == <<"MARK">>

\* b'\n'.join(outs) + b'\n'
RECURSIVE JoinLines(_)
JoinLines(outs) ==
    IF outs = <<>> THEN <<>>
    ELSE Head(outs) \o <<"LF">> \o JoinLines(Tail(outs))

\* lines 292-293: an unfinished buffer is a non-empty one not ending in LF.
LinesAreUnfinished(buf) == buf # <<>> /\ buf[Len(buf)] # "LF"

\* print_annotated_lines(buf, atype, fd, force_finish): pre is the fragment
\* retained for (fd, atype); isStr says buf is a str literal, not bytes.
\* The result is the new retained fragment, the bytes written to the sink
\* and whether an exception left the call.
print_annotated_lines(buf, atype, hasfd, force_finish, pre, o, isStr, p3) ==
    LET buf_pre   == IF hasfd THEN pre ELSE <<>>
        raised    == hasfd /\ buf_pre # <<>> /\ isStr /\ p3
        buf1      == IF buf_pre # <<>> THEN buf_pre \o buf ELSE buf
        unfin     == LinesAreUnfinished(buf1)
        lines0    == splitlines(buf1)
        keep      == hasfd /\ unfin /\ o.buffer_lines /\ ~force_finish
        lines     == IF keep THEN SubSeq(lines0, 1, Len(lines0) - 1) ELSE lines0
        unfin2    == IF keep THEN FALSE ELSE unfin
        outs      == [i \in 1..Len(lines) |->
                        (IF o.annotate_lines
                         THEN OUTPUT_FORMATS(atype, lines[i])
                         ELSE lines[i])
                        \o (IF i = Len(lines) /\ unfin2
                            THEN UNTERMINATED_LINE_MARK ELSE <<>>)]
    IN  IF raised
        THEN [retained |-> <<>>, out |-> <<>>, raised |-> TRUE]
        ELSE [retained |-> IF keep THEN lines0[Len(lines0)]
                           ELSE IF hasfd THEN <<>> ELSE pre,
              out      |-> JoinLines(outs),
              raised   |-> FALSE]

\* log_exception: the entry appended for an I/O error.
log_exception(o) == IF o.verbose THEN "Exception: OSError" ELSE "OSError"


\* running(), lines 186-191: the failure entry for an exit code.
ExitMessage(code) ==
    IF code < 0 THEN "Killed by signal " \o ToString(-code)
    ELSE "Exited with error code " \o ToString(code)

\* ------------------------------------------------------------------------
\* The inputs: option flags, stdin buffer, what the child writes
\* ------------------------------------------------------------------------
Options == [print_out: BOOLEAN, inline: BOOLEAN, annotate_lines: BOOLEAN,
            buffer_lines: BOOLEAN, inline_stdout: BOOLEAN, verbose: BOOLEAN]

\* The defaults of lines 81-101 (all options unset).
DefaultOptions == [print_out |-> FALSE, inline |-> FALSE,
                   annotate_lines |-> TRUE, buffer_lines |-> TRUE,
                   inline_stdout |-> FALSE, verbose |-> FALSE]

\* Exit codes of a child that ends by itself.
ExitCodes == {0, 1}

\* Task.__init__ (lines 43-101), with the inputs drawn from the given sets.
InitWith(optionSet, inputSet, outSet, errSet, writerSet, py3Set) ==
    /\ proc = "None" /\ killed = FALSE /\ exitstatus = <<>>
    /\ failures = <<>>
    /\ inputbuffer \in inputSet
    /\ byteswritten = 0
    /\ outputbuffer = <<>> /\ errorbuffer = <<>>
    /\ fd_to_buffer = [out |-> <<>>, err |-> <<>>]
    /\ stdin = "None" /\ stdout = "None" /\ stderr = "None"
    /\ outfile = "None" /\ errfile = "None"
    /\ outstream = <<>> /\ errstream = <<>>
    /\ opts \in optionSet
    /\ writer \in writerSet
    /\ registered = {}
    /\ unregisters = [stdin |-> 0, stdout |-> 0, stderr |-> 0]
    /\ child = "unborn" /\ returncode = 0
    /\ pipeOut \in outSet /\ pipeErr \in errSet
    /\ outClosed = FALSE /\ errClosed = FALSE
    /\ sigpending = FALSE /\ killcalls = 0
    /\ broken = {}
    /\ py3 \in py3Set
    /\ started = FALSE /\ lastOp = "init" /\ ret = "none"
    /\ fed = <<>>
    /\ callbacks = 0
    /\ sinklog = <<>>

\* The task with its default options: the supervisor's life cycle.
Init ==
    InitWith({DefaultOptions}, {0, 1}, {<<>>, <<"a">>}, {<<>>},
             BOOLEAN, {TRUE})

\* ------------------------------------------------------------------------
\* Task.start (lines 103-140)
\* ------------------------------------------------------------------------
start ==
    /\ ~started
    /\ started' = TRUE
    /\ outfile' = IF writer THEN "open" ELSE outfile
    /\ errfile' = IF writer THEN "open" ELSE errfile
    /\ proc' = "Popen"
    /\ child' = "alive"
    /\ stdin' = IF inputbuffer > 0 THEN "open" ELSE stdin
    /\ stdout' = "open"
    /\ stderr' = "open"
    /\ registered' = registered \cup {"stdout", "stderr"}
                        \cup (IF inputbuffer > 0 THEN {"stdin"} ELSE {})
    /\ lastOp' = "start" /\ ret' = "none" /\ sinklog' = <<>>
    /\ UNCHANGED <<killed, exitstatus, failures, inputbuffer, byteswritten,
                   outputbuffer, errorbuffer, fd_to_buffer, outstream,
                   errstream, opts, writer, unregisters, returncode, pipeOut,
                   pipeErr, outClosed, errClosed, sigpending, killcalls,
                   broken, py3, fed, callbacks>>

\* ------------------------------------------------------------------------
\* Task._kill, timedout, interrupted, cancel (lines 142-166)
\* ------------------------------------------------------------------------

\* A failure entry can still be appended by an operation that could append
\* without end.
Room == Len(failures) < MaxFailures

\* Mutant of kill: killed is set only when os.kill succeeded.
kill_UnlessOSError(ok) ==
    IF proc # "None"
    THEN /\ killcalls' = killcalls + 1
         /\ sigpending' = IF ok /\ child = "alive" THEN TRUE ELSE sigpending
         /\ killed' = ok
    ELSE UNCHANGED <<killcalls, sigpending, killed>>

\* _kill (lines 142-150) with the outcome of os.kill: ok, or an OSError,
\* which is swallowed.
kill(ok) ==
    IF proc # "None"
    THEN /\ killcalls' = killcalls + 1
         /\ sigpending' = IF ok /\ child = "alive" THEN TRUE ELSE sigpending
         /\ killed' = TRUE
    ELSE UNCHANGED <<killcalls, sigpending, killed>>

\* Mutant of AlreadyKilled: the killed flag is not tested.
AlreadyKilled_Untested == FALSE

\* lines 154 and 160: the test that makes timedout and interrupted no-ops.
AlreadyKilled == killed

KillAndRecord(reason) ==
    IF ~AlreadyKilled
    THEN /\ Room
         /\ \E ok \in BOOLEAN : kill(ok)
         /\ failures' = Append(failures, reason)
    ELSE UNCHANGED <<killcalls, sigpending, killed, failures>>

timedout ==
    /\ KillAndRecord("Timed out")
    /\ lastOp' = "timedout" /\ ret' = "none" /\ sinklog' = <<>>
    /\ UNCHANGED <<proc, exitstatus, inputbuffer, byteswritten, outputbuffer,
                   errorbuffer, fd_to_buffer, stdin, stdout, stderr, outfile,
                   errfile, outstream, errstream, opts, writer, registered,
                   unregisters, child, returncode, pipeOut, pipeErr,
                   outClosed, errClosed, broken, py3, started, fed, callbacks>>

interrupted ==
    /\ KillAndRecord("Interrupted")
    /\ lastOp' = "interrupted" /\ ret' = "none" /\ sinklog' = <<>>
    /\ UNCHANGED <<proc, exitstatus, inputbuffer, byteswritten, outputbuffer,
                   errorbuffer, fd_to_buffer, stdin, stdout, stderr, outfile,
                   errfile, outstream, errstream, opts, writer, registered,
                   unregisters, child, returncode, pipeOut, pipeErr,
                   outClosed, errClosed, broken, py3, started, fed, callbacks>>

\* Mutant of CancelEntry: cancel records what interrupted records.
CancelEntry_Interrupted == "Interrupted"

\* line 166: the entry cancel appends.
CancelEntry == "Cancelled"

\* cancel (lines 164-166); the driver calls it on tasks it never started.
cancel ==
    /\ ~started
    /\ Room
    /\ failures' = Append(failures, CancelEntry)
    /\ lastOp' = "cancel" /\ ret' = "none" /\ sinklog' = <<>>
    /\ UNCHANGED <<proc, killed, exitstatus, inputbuffer, byteswritten,
                   outputbuffer, errorbuffer, fd_to_buffer, stdin, stdout,
                   stderr, outfile, errfile, outstream, errstream, opts,
                   writer, envVars, started, fed, callbacks>>

\* ------------------------------------------------------------------------
\* Task.running (lines 172-193)
\* ------------------------------------------------------------------------

\* Mutant of AnySlotOpen: the error slot is not looked at.
AnySlotOpen_NoStderr == stdin # "None" \/ stdout # "None"

\* line 174
AnySlotOpen == stdin # "None" \/ stdout # "None" \/ stderr # "None"

\* proc.poll(): None while the child lives, else its exit code.
poll == IF child = "alive" THEN <<>> ELSE <<returncode>>

\* Mutant of ExitFailures: a negative code (death by signal) is not recorded.
ExitFailures_NoSignal(code) ==
    IF code > 0 THEN <<ExitMessage(code)>> ELSE <<>>

\* lines 186-191: what an available exit code adds to the failure list.
ExitFailures(code) == IF code # 0 THEN <<ExitMessage(code)>> ELSE <<>>

\* Mutant of UnavailableStatus: the killed flag is not tested.
UnavailableStatus_Untested == <<-SIGKILL>>

\* lines 177-181: the exit status when poll() has no exit code yet.
UnavailableStatus == IF killed THEN <<-SIGKILL>> ELSE <<>>

\* Mutant of RecordExit: the entry replaces the list.
RecordExit_Replace(fs, code) == ExitFailures(code)

\* lines 186-191: self.failures.append(message).
RecordExit(fs, code) == fs \o ExitFailures(code)

\* Mutant of ProcAfterExit: the handle is kept.
ProcAfterExit_Kept == "Popen"

\* line 192: the handle after an exit code was fetched.
ProcAfterExit == "None"

running ==
    /\ lastOp' = "running" /\ sinklog' = <<>>
    /\ IF AnySlotOpen
       THEN /\ ret' = "True"
            /\ UNCHANGED <<proc, exitstatus, failures, child>>
       ELSE IF proc # "None"
       THEN IF poll = <<>>
            THEN /\ exitstatus' = UnavailableStatus
                 /\ ret' = IF killed THEN "False" ELSE "True"
                 /\ UNCHANGED <<proc, failures, child>>
            ELSE /\ exitstatus' = poll
                 /\ failures' = RecordExit(failures, poll[1])
                 /\ Len(failures') <= MaxFailures + 4   \* never binds
                 /\ proc' = ProcAfterExit
                 /\ child' = "reaped"
                 /\ ret' = "False"
       ELSE /\ ret' = "None"
            /\ UNCHANGED <<proc, exitstatus, failures, child>>
    /\ UNCHANGED <<killed, inputbuffer, byteswritten, outputbuffer,
                   errorbuffer, fd_to_buffer, stdin, stdout, stderr, outfile,
                   errfile, outstream, errstream, opts, writer, registered,
                   unregisters, returncode, pipeOut, pipeErr, outClosed,
                   errClosed, sigpending, killcalls, broken, py3, started,
                   fed, callbacks>>

\* ------------------------------------------------------------------------
\* close_stdin, close_stdout, close_stderr (lines 210-214, 244-251, 276-283)
\* Each handler step calls exactly one of them.
\* ------------------------------------------------------------------------
close_stdin ==
    IF stdin # "None"
    THEN /\ registered' = registered \ {"stdin"}
         /\ unregisters' = [unregisters EXCEPT !.stdin = @ + 1]
         /\ stdin' = "None"
    ELSE UNCHANGED <<registered, unregisters, stdin>>

\* Mutant of close_stdout: the writer's file is not closed.
close_stdout_KeepsFile ==
    /\ IF stdout # "None"
       THEN /\ registered' = registered \ {"stdout"}
            /\ unregisters' = [unregisters EXCEPT !.stdout = @ + 1]
            /\ stdout' = "None"
       ELSE UNCHANGED <<registered, unregisters, stdout>>
    /\ UNCHANGED outfile

close_stdout ==
    /\ IF stdout # "None"
       THEN /\ registered' = registered \ {"stdout"}
            /\ unregisters' = [unregisters EXCEPT !.stdout = @ + 1]
            /\ stdout' = "None"
       ELSE UNCHANGED <<registered, unregisters, stdout>>
    /\ outfile' = "None"

close_stderr ==
    /\ IF stderr # "None"
       THEN /\ registered' = registered \ {"stderr"}
            /\ unregisters' = [unregisters EXCEPT !.stderr = @ + 1]
            /\ stderr' = "None"
       ELSE UNCHANGED <<registered, unregisters, stderr>>
    /\ errfile' = "None"

\* ------------------------------------------------------------------------
\* handle_stdin (lines 195-208)
\* The reactor calls a handler for its registered descriptor, and may call
\* it once more (a stale event) after the descriptor was unregistered and
\* closed; os.read and os.write on a closed descriptor raise EBADF.
\* ------------------------------------------------------------------------

\* line 207: the close method the except branch calls.
StdinErrorClose == close_stdin

\* Mutant of ErrorFailures: every error is recorded, EINTR included.
ErrorFailures_Always(errno, o) == <<log_exception(o)>>

\* lines 206-208, 240-242, 272-274: what an OSError caught by a handler
\* adds to the failure list.
ErrorFailures(errno, o) ==
    IF errno # "EINTR" THEN <<log_exception(o)>> ELSE <<>>

\* Mutant of ChunkLen: the rest of the buffer is offered in one piece.
ChunkLen_Unsliced(from) == inputbuffer - from

\* line 200: the length of inputbuffer[start:start+BUFFER_SIZE].
ChunkLen(from) == Min(BUFFER_SIZE, inputbuffer - from)

\* One call of handle_stdin.
handle_stdin_call ==
    /\ started /\ inputbuffer > 0
    /\ \/ \* os.write accepted n bytes of the chunk
          /\ stdin # "None" /\ byteswritten < inputbuffer /\ child = "alive"
          /\ \E n \in 1..ChunkLen(byteswritten) :
                byteswritten' = byteswritten + n
          /\ lastOp' = "handle_stdin:data"
          /\ UNCHANGED <<failures, stdin, registered, unregisters>>
       \/ \* everything was written: close
          /\ byteswritten >= inputbuffer
          /\ close_stdin
          /\ lastOp' = IF stdin # "None" THEN "handle_stdin:done"
                       ELSE "handle_stdin:stale"
          /\ UNCHANGED <<failures, byteswritten>>
       \/ \* os.write raised EINTR
          /\ stdin # "None" /\ byteswritten < inputbuffer
          /\ failures' = failures \o ErrorFailures("EINTR", opts)
          /\ lastOp' = "handle_stdin:eintr"
          /\ UNCHANGED <<byteswritten, stdin, registered, unregisters>>
       \/ \* os.write raised another error
          /\ byteswritten < inputbuffer
          /\ stdin = "None" => Room
          /\ StdinErrorClose
          /\ failures' = failures \o ErrorFailures("EIO", opts)
          /\ lastOp' = IF stdin # "None" THEN "handle_stdin:fatal"
                       ELSE "handle_stdin:stale"
          /\ UNCHANGED byteswritten
    /\ ret' = "none" /\ sinklog' = <<>>
    /\ UNCHANGED <<proc, killed, exitstatus, inputbuffer, outputbuffer,
                   errorbuffer, fd_to_buffer, stdout, stderr, outfile,
                   errfile, outstream, errstream, opts, writer, child,
                   returncode, pipeOut, pipeErr, outClosed, errClosed,
                   sigpending, killcalls, broken, py3, started, fed>>

\* handle_stdin as the reactor dispatches it.
handle_stdin == handle_stdin_call /\ UNCHANGED callbacks

\* ------------------------------------------------------------------------
\* handle_stdout (lines 216-242)
\* ------------------------------------------------------------------------

\* lines 234-236: the end-of-stream flush is made under this condition.
StdoutFlushes(o) == o.annotate_lines

\* line 241: the close method the except branch calls.
StdoutErrorClose == close_stdout

handle_stdout ==
    /\ started
    /\ \/ \* os.read returned n bytes
          /\ stdout # "None" /\ pipeOut # <<>>
          /\ \E n \in 1..Min(BUFFER_SIZE, Len(pipeOut)) :
               LET buf == SubSeq(pipeOut, 1, n)
                   r   == print_annotated_lines(buf, "out", TRUE, FALSE,
                                                fd_to_buffer.out, opts,
                                                FALSE, py3)
               IN  /\ pipeOut' = SubSeq(pipeOut, n + 1, Len(pipeOut))
                   /\ outputbuffer' = IF opts.inline \/ opts.inline_stdout
                                      THEN outputbuffer \o buf
                                      ELSE outputbuffer
                   /\ IF opts.print_out
                      THEN /\ fd_to_buffer' =
                                [fd_to_buffer EXCEPT !.out = r.retained]
                           /\ outstream' = outstream \o r.out
                      ELSE UNCHANGED <<fd_to_buffer, outstream>>
          /\ lastOp' = "handle_stdout:data"
          /\ UNCHANGED <<failures, stdout, outfile, registered, unregisters>>
       \/ \* os.read returned nothing: end of stream
          /\ stdout # "None" /\ pipeOut = <<>> /\ outClosed
          /\ LET r == print_annotated_lines(<<>>, "out", TRUE, TRUE,
                                            fd_to_buffer.out, opts,
                                            FALSE, py3)
             IN  IF StdoutFlushes(opts)
                 THEN /\ fd_to_buffer' =
                            [fd_to_buffer EXCEPT !.out = r.retained]
                      /\ outstream' = outstream \o r.out
                 ELSE UNCHANGED <<fd_to_buffer, outstream>>
          /\ close_stdout
          /\ lastOp' = "handle_stdout:eof"
          /\ UNCHANGED <<failures, outputbuffer, pipeOut>>
       \/ \* os.read raised EINTR
          /\ stdout # "None"
          /\ failures' = failures \o ErrorFailures("EINTR", opts)
          /\ lastOp' = "handle_stdout:eintr"
          /\ UNCHANGED <<outputbuffer, fd_to_buffer, outstream,
                         stdout, outfile, registered, unregisters, pipeOut>>
       \/ \* os.read raised another error
          /\ stdout = "None" => Room
          /\ StdoutErrorClose
          /\ failures' = failures \o ErrorFailures("EIO", opts)
          /\ lastOp' = IF stdout # "None" THEN "handle_stdout:fatal"
                       ELSE "handle_stdout:stale"
          /\ UNCHANGED <<outputbuffer, fd_to_buffer, outstream, pipeOut>>
    /\ ret' = "none" /\ sinklog' = <<>>
    /\ UNCHANGED <<proc, killed, exitstatus, inputbuffer, byteswritten,
                   errorbuffer, stdin, stderr, errfile, errstream, opts,
                   writer, child, returncode, pipeErr, outClosed, errClosed,
                   sigpending, killcalls, broken, py3, started, fed, callbacks>>

\* ------------------------------------------------------------------------
\* handle_stderr (lines 253-274)
\* ------------------------------------------------------------------------

\* line 273: the close method the except branch calls.
StderrErrorClose ==
    /\ close_stdin
    /\ UNCHANGED <<stderr, errfile>>

handle_stderr ==
    /\ started
    /\ \/ \* os.read returned n bytes
          /\ stderr # "None" /\ pipeErr # <<>> /\ "stderr" \notin broken
          /\ \E n \in 1..Min(BUFFER_SIZE, Len(pipeErr)) :
               LET buf == SubSeq(pipeErr, 1, n)
                   r   == print_annotated_lines(buf, "err", TRUE, FALSE,
                                                fd_to_buffer.err, opts,
                                                FALSE, py3)
               IN  /\ pipeErr' = SubSeq(pipeErr, n + 1, Len(pipeErr))
                   /\ errorbuffer' = IF opts.inline
                                     THEN errorbuffer \o buf
                                     ELSE errorbuffer
                   /\ IF opts.print_out /\ opts.annotate_lines
                      THEN /\ fd_to_buffer' =
                                [fd_to_buffer EXCEPT !.err = r.retained]
                           /\ errstream' = errstream \o r.out
                      ELSE UNCHANGED <<fd_to_buffer, errstream>>
          /\ lastOp' = "handle_stderr:data"
          /\ UNCHANGED <<failures, stdin, stderr, errfile, registered,
                         unregisters, broken>>
       \/ \* os.read returned nothing: end of stream.  The flush passes the
          \* str '' (line 268): with a fragment retained, an interpreter
          \* that separates bytes from str raises TypeError at line 290,
          \* which no except clause of the handler catches.
          /\ stderr # "None" /\ pipeErr = <<>> /\ errClosed
          /\ "stderr" \notin broken
          /\ LET r == print_annotated_lines(<<>>, "err", TRUE, TRUE,
                                            fd_to_buffer.err, opts,
                                            TRUE, py3)
             IN  IF opts.annotate_lines
                 THEN /\ fd_to_buffer' =
                            [fd_to_buffer EXCEPT !.err = r.retained]
                      /\ errstream' = errstream \o r.out
                      /\ IF r.raised
                         THEN /\ lastOp' = "handle_stderr:raised"
                              /\ UNCHANGED <<stderr, errfile, registered,
                                             unregisters>>
                         ELSE /\ close_stderr
                              /\ lastOp' = "handle_stderr:eof"
                 ELSE /\ close_stderr
                      /\ lastOp' = "handle_stderr:eof"
                      /\ UNCHANGED <<fd_to_buffer, errstream>>
          /\ UNCHANGED <<failures, errorbuffer, pipeErr, stdin, broken>>
       \/ \* os.read raised EINTR
          /\ stderr # "None"
          /\ failures' = failures \o ErrorFailures("EINTR", opts)
          /\ lastOp' = "handle_stderr:eintr"
          /\ UNCHANGED <<errorbuffer, fd_to_buffer, errstream,
                         stdin, stderr, errfile, registered, unregisters,
                         pipeErr, broken>>
       \/ \* os.read raised another error, which later reads of the still
          \* open descriptor may meet again (sticky) or not
          /\ Room
          /\ StderrErrorClose
          /\ failures' = failures \o ErrorFailures("EIO", opts)
          /\ lastOp' = IF stderr # "None" THEN "handle_stderr:fatal"
                       ELSE "handle_stderr:stale"
          /\ \E sticky \in BOOLEAN :
                broken' = IF sticky /\ stderr # "None"
                          THEN broken \cup {"stderr"} ELSE broken
          /\ UNCHANGED <<errorbuffer, fd_to_buffer, errstream, pipeErr>>
    /\ ret' = "none" /\ sinklog' = <<>>
    /\ UNCHANGED <<proc, killed, exitstatus, inputbuffer, byteswritten,
                   outputbuffer, stdout, outfile, outstream, opts,
                   writer, child, returncode, pipeOut, outClosed, errClosed,
                   sigpending, killcalls, py3, started, fed, callbacks>>

\* ------------------------------------------------------------------------
\* The child process
\* ------------------------------------------------------------------------
childClosesOut ==
    /\ child = "alive" /\ ~outClosed
    /\ outClosed' = TRUE
    /\ lastOp' = "child" /\ ret' = "none" /\ sinklog' = <<>>
    /\ UNCHANGED <<taskVars, registered, unregisters, child, returncode,
                   pipeOut, pipeErr, errClosed, sigpending, killcalls,
                   broken, py3, started, fed, callbacks>>

childClosesErr ==
    /\ child = "alive" /\ ~errClosed
    /\ errClosed' = TRUE
    /\ lastOp' = "child" /\ ret' = "none" /\ sinklog' = <<>>
    /\ UNCHANGED <<taskVars, registered, unregisters, child, returncode,
                   pipeOut, pipeErr, outClosed, sigpending, killcalls,
                   broken, py3, started, fed, callbacks>>

\* The child exits by itself, or dies of the SIGKILL sent to its group.
childExits ==
    /\ child = "alive"
    /\ \/ \E code \in ExitCodes : returncode' = code
       \/ sigpending /\ returncode' = -SIGKILL
    /\ child' = "zombie"
    /\ outClosed' = TRUE /\ errClosed' = TRUE
    /\ sigpending' = FALSE
    /\ lastOp' = "child" /\ ret' = "none" /\ sinklog' = <<>>
    /\ UNCHANGED <<taskVars, registered, unregisters, pipeOut, pipeErr,
                   killcalls, broken, py3, started, fed, callbacks>>

\* ------------------------------------------------------------------------
\* Task.report (lines 339-371)
\* The driver calls it once running() has returned False.  The summary line
\* is the pair of the word "summary" and its marker; the progress index, the
\* time stamp, the host and the colours are left out.
\* ------------------------------------------------------------------------

\* lines 355-358: the marker of the summary line.
SummaryMark == IF failures # <<>> THEN "FAILURE" ELSE "SUCCESS"

Write(sink, what) == <<sink, "write", what>>
Flush(sink) == <<sink, "flush", <<>>>>

\* lines 359-360
ReportSummary ==
    <<Write("errstream", <<"summary", SummaryMark>>), Flush("errstream")>>

\* lines 363-366
ReportOutput ==
    IF outputbuffer # <<>>
    THEN <<Flush("outstream"), Write("outstream", outputbuffer),
           Flush("outstream")>>
    ELSE <<>>

\* lines 367-371.  The marker is a str: written to sys.stdout.buffer, the
\* sink of an interpreter that separates bytes from str, the write raises
\* TypeError and report() ends there.  The last write is not flushed.
ReportError ==
    IF errorbuffer # <<>>
    THEN IF py3 THEN <<>>
         ELSE <<Write("outstream", <<"Stderr: ">>), Flush("outstream"),
                Write("outstream", errorbuffer)>>
    ELSE <<>>

report ==
    /\ lastOp = "running" /\ ret = "False"
    /\ sinklog' = ReportSummary \o ReportOutput \o ReportError
    /\ lastOp' = IF errorbuffer # <<>> /\ py3 THEN "report:raised"
                 ELSE "report"
    /\ ret' = "none"
    /\ UNCHANGED <<taskVars, envVars, started, fed, callbacks>>

\* ------------------------------------------------------------------------
\* Specifications
\* ------------------------------------------------------------------------
Next ==
    \/ start
    \/ timedout
    \/ interrupted
    \/ cancel
    \/ running
    \/ report
    \/ handle_stdin
    \/ handle_stdout
    \/ handle_stderr
    \/ childClosesOut
    \/ childClosesErr
    \/ childExits

Spec == Init /\ [][Next]_vars

\* The stream handlers alone, under every combination of the console
\* options: the driver starts the task and the reactor dispatches events.
IOOptions == [print_out: BOOLEAN, inline: BOOLEAN, annotate_lines: BOOLEAN,
              buffer_lines: BOOLEAN, inline_stdout: {FALSE},
              verbose: {FALSE}]

IOInit ==
    InitWith(IOOptions, {MaxInput}, {<<"a", "LF", "a">>}, {<<"a">>},
             {TRUE}, BOOLEAN)

IONext ==
    \/ start
    \/ handle_stdin
    \/ handle_stdout
    \/ handle_stderr
    \/ childClosesOut
    \/ childClosesErr
    \/ childExits

IOSpec == IOInit /\ [][IONext]_vars

\* ------------------------------------------------------------------------
\* The line framer on its own: a byte stream is cut into chunks, each chunk
\* is given to print_annotated_lines for the pair (fd, 'out'), and a last
\* call forces completion.  pipeOut is the part of the stream not yet fed.
\* ------------------------------------------------------------------------
RECURSIVE Streams(_)
Streams(n) ==
    IF n = 0 THEN {<<>>}
    ELSE LET shorter == Streams(n - 1)
         IN  shorter \cup {Append(t, b) : t \in shorter, b \in {"a", "LF", "CR"}}

FramerOptions == [print_out: {TRUE}, inline: {FALSE},
                  annotate_lines: BOOLEAN, buffer_lines: BOOLEAN,
                  inline_stdout: {FALSE}, verbose: {FALSE}]

FramerInit ==
    InitWith(FramerOptions, {0}, Streams(MaxStream), {<<>>}, {FALSE}, {TRUE})

framerFeed ==
    /\ lastOp # "framer:finish" /\ pipeOut # <<>>
    /\ \E n \in 1..Len(pipeOut) :
         LET buf == SubSeq(pipeOut, 1, n)
             r   == print_annotated_lines(buf, "out", TRUE, FALSE,
                                          fd_to_buffer.out, opts, FALSE, py3)
         IN  /\ pipeOut' = SubSeq(pipeOut, n + 1, Len(pipeOut))
             /\ fed' = fed \o buf
             /\ fd_to_buffer' = [fd_to_buffer EXCEPT !.out = r.retained]
             /\ outstream' = outstream \o r.out
    /\ lastOp' = "framer:feed"
    /\ UNCHANGED <<proc, killed, exitstatus, failures, inputbuffer,
                   byteswritten, outputbuffer, errorbuffer, stdin, stdout,
                   stderr, outfile, errfile, errstream, opts, writer,
                   registered, unregisters, child, returncode, pipeErr,
                   outClosed, errClosed, sigpending, killcalls, broken, py3,
                   started, ret, callbacks, sinklog>>

framerFinish ==
    /\ lastOp # "framer:finish" /\ pipeOut = <<>>
    /\ LET r == print_annotated_lines(<<>>, "out", TRUE, TRUE,
                                      fd_to_buffer.out, opts, FALSE, py3)
       IN  /\ fd_to_buffer' = [fd_to_buffer EXCEPT !.out = r.retained]
           /\ outstream' = outstream \o r.out
    /\ lastOp' = "framer:finish"
    /\ UNCHANGED <<proc, killed, exitstatus, failures, inputbuffer,
                   byteswritten, outputbuffer, errorbuffer, stdin, stdout,
                   stderr, outfile, errfile, errstream, opts, writer,
                   registered, unregisters, child, returncode, pipeOut,
                   pipeErr, outClosed, errClosed, sigpending, killcalls,
                   broken, py3, started, ret, fed, callbacks,
                   sinklog>>

FramerNext ==
    \/ framerFeed
    \/ framerFinish

FramerSpec == FramerInit /\ [][FramerNext]_vars

\* ------------------------------------------------------------------------
\* The task under a driver that keeps polling running(), a reactor that
\* keeps dispatching the events of registered descriptors, and a child that
\* ends: a read or write that can succeed eventually does (it is not
\* interrupted for ever), and a write to the pipe of a child that is gone
\* fails.
\* ------------------------------------------------------------------------
LiveInit ==
    InitWith({DefaultOptions}, {1}, {<<"a">>}, {<<>>}, {TRUE}, {TRUE})

\* ------------------------------------------------------------------------
\* The input feed on its own: the driver starts a task with an input buffer
\* of 1..MaxFeed bytes, every os.write accepts the whole slice offered, and
\* every handle_stdin call is counted.  The output descriptor is served in
\* between.
\* ------------------------------------------------------------------------
FeedInit ==
    InitWith({DefaultOptions}, 1..MaxFeed, {<<"a">>}, {<<>>}, {TRUE}, {TRUE})

feedCallback ==
    /\ handle_stdin_call
    /\ \/ /\ lastOp' = "handle_stdin:data"
          /\ byteswritten' = byteswritten + ChunkLen(byteswritten)
       \/ lastOp' = "handle_stdin:done"
    /\ callbacks' = callbacks + 1

FeedNext ==
    \/ start
    \/ feedCallback
    \/ handle_stdout
    \/ childClosesOut
    \/ childClosesErr

FeedSpec == FeedInit /\ [][FeedNext]_vars

\* ------------------------------------------------------------------------
\* The report of a task that captures its output and its error output
\* (inline), under both interpreters.
\* ------------------------------------------------------------------------
ReportInit ==
    InitWith({[DefaultOptions EXCEPT !.inline = TRUE]}, {0},
             {<<>>, <<"a">>}, {<<>>, <<"a">>}, {FALSE}, BOOLEAN)

ReportNext ==
    \/ start
    \/ running
    \/ report
    \/ handle_stdout
    \/ handle_stderr
    \/ childClosesOut
    \/ childClosesErr
    \/ childExits

ReportSpec == ReportInit /\ [][ReportNext]_vars

StdinProgress ==
    /\ handle_stdin
    /\ \/ lastOp' \in {"handle_stdin:data", "handle_stdin:done"}
       \/ lastOp' = "handle_stdin:fatal" /\ child # "alive"

StdoutProgress ==
    handle_stdout /\ lastOp' \in {"handle_stdout:data", "handle_stdout:eof"}

StderrProgress ==
    handle_stderr /\ lastOp' \in {"handle_stderr:data", "handle_stderr:eof",
                                  "handle_stderr:raised"}

Fairness ==
    /\ WF_vars(running)
    /\ WF_vars(childExits)
    /\ WF_vars(StdinProgress)
    /\ WF_vars(StdoutProgress)
    /\ WF_vars(StderrProgress)

LiveSpec == LiveInit /\ [][Next]_vars /\ Fairness

\* ------------------------------------------------------------------------
\* Properties
\* ------------------------------------------------------------------------
AllSlotsNull == stdin = "None" /\ stdout = "None" /\ stderr = "None"

\* The failure entries that no operation but running appends.
IsExitEntry(f) ==
    f \notin {"Timed out", "Interrupted", "Cancelled",
              "OSError", "Exception: OSError"}

ExitEntries == {i \in DOMAIN failures : IsExitEntry(failures[i])}

Count(entry) == Cardinality({i \in DOMAIN failures : failures[i] = entry})

\* running() fetched an exit code and released the handle.
Released == started /\ proc = "None"

\* C1: running() returns a false value (False or None) only when the three
\* slots are all null; and on a started task whose slots are all null it
\* returns True whenever the child has no exit code yet and the task was not
\* killed.
C1_RunningPredicate ==
    lastOp = "running" =>
        /\ ret \in {"False", "None"} => AllSlotsNull
        /\ (started /\ AllSlotsNull /\ child = "alive" /\ ~killed)
              => ret = "True"

C1_Witness ==
    /\ lastOp = "running" /\ ret = "True"
    /\ started /\ AllSlotsNull /\ child = "alive" /\ ~killed

\* C2: whatever the number of running() calls and whatever is interleaved
\* with them, the failure list holds at most one exit-code entry: exactly
\* one once running() has fetched a non-zero exit code ('Killed by signal N'
\* for a negative code, 'Exited with error code N' for a positive one), and
\* none for exit code zero or while no exit code was fetched.
C2_OneExitEntry ==
    /\ Cardinality(ExitEntries) <= 1
    /\ (Released /\ returncode > 0) =>
          /\ Cardinality(ExitEntries) = 1
          /\ Count("Exited with error code 1") = 1
    /\ (Released /\ returncode < 0) =>
          /\ Cardinality(ExitEntries) = 1
          /\ Count("Killed by signal 9") = 1
    /\ (~Released \/ returncode = 0) => ExitEntries = {}

\* running() is called again after it fetched the code of a killed child.
C2_Witness ==
    /\ lastOp = "running" /\ ret = "None" /\ Released
    /\ returncode = -SIGKILL /\ Count("Killed by signal 9") = 1

\* Scenario C: the task was killed by timedout(), called once, the child
\* did not end by itself, and nothing else but running() has added to the
\* failure list (no I/O error, no interrupted or cancel call).
ScenarioC ==
    /\ killed
    /\ child = "alive" \/ returncode = -SIGKILL
    /\ Count("Timed out") = 1
    /\ \A i \in DOMAIN failures :
          failures[i] \notin {"Interrupted", "Cancelled", "OSError",
                              "Exception: OSError"}

\* C3 as stated: in scenario C, whenever running() has returned False the
\* failure list is exactly the one entry 'Timed out'.
C3_OnlyTimedOut ==
    (ScenarioC /\ lastOp = "running" /\ ret = "False")
        => failures = <<"Timed out">>

\* C3 amended: in scenario C, whenever running() has returned False the
\* failure list is 'Timed out' alone when the exit code was not yet
\* available to that call, and 'Timed out' followed by 'Killed by signal 9'
\* when the call fetched the exit code of the killed child.
C3_TimedOutThenExit ==
    (ScenarioC /\ lastOp = "running" /\ ret = "False") =>
        IF proc = "None"
        THEN failures = <<"Timed out", "Killed by signal 9">>
        ELSE failures = <<"Timed out">> /\ exitstatus = <<-SIGKILL>>

C3_Witness ==
    /\ ScenarioC /\ lastOp = "running" /\ ret = "False"
    /\ failures = <<"Timed out", "Killed by signal 9">>

\* C9: timedout() and interrupted() on a task whose killed flag is set change
\* nothing (no failure entry, no kill signal, killed and exitstatus as
\* before), and a close method called on a slot that is already null leaves
\* the slot null, makes no unregister call and changes no file handle.
C9_Idempotent ==
    [][ /\ (killed /\ lastOp' \in {"timedout", "interrupted"})
              => UNCHANGED <<taskVars, envVars, started>>
        /\ (stdin = "None" /\ lastOp' \in {"handle_stdin:stale",
                  "handle_stderr:fatal", "handle_stderr:stale"})
              => UNCHANGED <<stdin, registered, unregisters>>
        /\ (stdout = "None" /\ lastOp' = "handle_stdout:stale")
              => UNCHANGED <<stdout, outfile, registered, unregisters>>
      ]_vars

\* timedout() was called on a task that interrupted() had killed.
C9_Witness ==
    /\ lastOp = "timedout" /\ killed /\ killcalls = 1
    /\ failures = <<"Interrupted">>

\* C10 as stated: timedout() and interrupted() on a task not yet killed, in
\* any lifecycle state, send a kill signal, set killed and append their
\* failure.
C10_AlwaysKills ==
    [][ /\ (~killed /\ lastOp' = "timedout") =>
              /\ killed' /\ killcalls' = killcalls + 1
              /\ failures' = Append(failures, "Timed out")
        /\ (~killed /\ lastOp' = "interrupted") =>
              /\ killed' /\ killcalls' = killcalls + 1
              /\ failures' = Append(failures, "Interrupted")
      ]_vars

\* C10 amended: timedout() and interrupted() on a task not yet killed append
\* their failure; when the task holds a process handle (started, exit code
\* not yet fetched) they also make one os.kill call and set killed, whether
\* or not the signal could be sent; without a handle (unstarted, or released
\* by running) no signal is sent and killed stays false.
C10_KillsWithHandle ==
    [][ /\ (~killed /\ lastOp' = "timedout") =>
              failures' = Append(failures, "Timed out")
        /\ (~killed /\ lastOp' = "interrupted") =>
              failures' = Append(failures, "Interrupted")
        /\ (~killed /\ lastOp' \in {"timedout", "interrupted"}) =>
              IF proc # "None"
              THEN killed' /\ killcalls' = killcalls + 1
              ELSE ~killed' /\ killcalls' = killcalls
      ]_vars

\* timedout() was called, os.kill failed, and killed is set.
C10_Witness ==
    /\ lastOp = "timedout" /\ killed /\ killcalls = 1
    /\ child = "alive" /\ ~sigpending
    /\ failures = <<"Timed out">>

\* C5: a fatal I/O error in a handler closes and unregisters the slot of
\* that handler's descriptor, appends one failure entry and leaves the other
\* two slots as they were.
C5_FatalClosesOwnSlot ==
    [][ /\ lastOp' = "handle_stdin:fatal" =>
              /\ stdin' = "None" /\ "stdin" \notin registered'
              /\ Len(failures') = Len(failures) + 1
              /\ UNCHANGED <<stdout, stderr>>
        /\ lastOp' = "handle_stdout:fatal" =>
              /\ stdout' = "None" /\ "stdout" \notin registered'
              /\ Len(failures') = Len(failures) + 1
              /\ UNCHANGED <<stdin, stderr>>
        /\ lastOp' = "handle_stderr:fatal" =>
              /\ stderr' = "None" /\ "stderr" \notin registered'
              /\ Len(failures') = Len(failures) + 1
              /\ UNCHANGED <<stdin, stdout>>
      ]_vars

\* C6: a handler called by a stale event, its slot being null already,
\* changes neither the failure list, nor the slots, nor the byte offset, nor
\* the capture buffers, nor the pending-line buffers.
C6_StaleEventNoOp ==
    [][ lastOp' \in {"handle_stdin:stale", "handle_stdout:stale",
                     "handle_stderr:stale"}
          => UNCHANGED <<failures, stdin, stdout, stderr, byteswritten,
                         outputbuffer, errorbuffer, fd_to_buffer>>
      ]_vars

\* The one line a forced completion writes for a retained fragment.
FlushedLine(atype, fragment) ==
    (IF opts.annotate_lines
     THEN <<"host", IF atype = "err" THEN "=>" ELSE "->">> ELSE <<>>)
    \o fragment \o <<"MARK", "LF">>

\* C7: when the output or the error descriptor reports end of stream while
\* a fragment is retained for it, the handler writes the fragment to the
\* sink, forgets it and closes the slot, whatever the options are.
C7_EofFlushesFragment ==
    [][ /\ (lastOp' = "handle_stdout:eof" /\ fd_to_buffer.out # <<>>) =>
              /\ outstream' = outstream \o FlushedLine("out", fd_to_buffer.out)
              /\ fd_to_buffer'.out = <<>>
              /\ stdout' = "None"
        /\ (lastOp' \in {"handle_stderr:eof", "handle_stderr:raised"}
              /\ fd_to_buffer.err # <<>>) =>
              /\ errstream' = errstream \o FlushedLine("err", fd_to_buffer.err)
              /\ fd_to_buffer'.err = <<>>
              /\ stderr' = "None"
      ]_vars

\* The emitted bytes with the annotation stripped and every line given back
\* its terminator, a line carrying the unterminated-line mark having none.
RECURSIVE Rejoin(_)
Rejoin(out) ==
    IF out = <<>> THEN <<>>
    ELSE IF Head(out) \in {"host", "->", "=>"} THEN Rejoin(Tail(out))
    ELSE IF Head(out) = "MARK" THEN Rejoin(Tail(Tail(out)))
    ELSE <<Head(out)>> \o Rejoin(Tail(out))

\* A byte stream with each terminator (LF, CR, CR LF) written as LF.
RECURSIVE Terminators(_)
Terminators(b) ==
    IF b = <<>> THEN <<>>
    ELSE IF Head(b) = "CR"
         THEN <<"LF">> \o (IF Len(b) > 1 /\ b[2] = "LF"
                           THEN Terminators(Tail(Tail(b)))
                           ELSE Terminators(Tail(b)))
    ELSE <<Head(b)>> \o Terminators(Tail(b))

\* C8: after the forced-completion call, the emitted lines, annotation
\* stripped and terminators put back, are the concatenation of the chunks,
\* the last line carrying the mark exactly when the stream did not end with
\* a terminator; for every stream and every way of cutting it into chunks.
C8_RoundTrip ==
    lastOp = "framer:finish" => Rejoin(outstream) = Terminators(fed)

\* C4: once the task is started, running() eventually returns False, a
\* fatal I/O error on any of the three descriptors, timedout() and
\* interrupted() included.
C4_EventuallyNotRunning ==
    <>started => <>(lastOp = "running" /\ ret = "False")

\* ceil(a / b)
Ceil(a, b) == (a + b - 1) \div b

\* C11 as stated: with an input buffer of L > 0 bytes, chunk size C and
\* every write accepting the whole slice, the input slot is null exactly
\* from the callback number ceil(L/C) on: the callback in which the offset
\* reaches L closes the slot.
C11_ClosesAtCeil ==
    started =>
        (stdin = "None" <=> callbacks >= Ceil(inputbuffer, BUFFER_SIZE))

\* C11 amended: the first ceil(L/C) callbacks each write one slice and leave
\* the slot open, also the one in which the offset reaches L; the callback
\* after them, number ceil(L/C) + 1, closes and unregisters the slot, the
\* offset being L.
C11_ClosesAfterCeil ==
    started =>
        IF stdin # "None"
        THEN /\ callbacks <= Ceil(inputbuffer, BUFFER_SIZE)
             /\ byteswritten = Min(inputbuffer, callbacks * BUFFER_SIZE)
             /\ "stdin" \in registered
        ELSE /\ callbacks = Ceil(inputbuffer, BUFFER_SIZE) + 1
             /\ byteswritten = inputbuffer
             /\ "stdin" \notin registered /\ unregisters.stdin = 1

\* A buffer of 5 bytes fed in slices of 2: closed by the fourth callback.
C11_Witness ==
    /\ started /\ stdin = "None" /\ inputbuffer = 5
    /\ byteswritten = 5 /\ callbacks = 4

\* C12: a read or write interrupted by EINTR, in any of the three handlers,
\* changes nothing of the task or of its collaborators: the slot stays open
\* and registered, the offset and the buffers are as before and no failure
\* is appended.
C12_EintrChangesNothing ==
    [][ lastOp' \in {"handle_stdin:eintr", "handle_stdout:eintr",
                     "handle_stderr:eintr"}
          => UNCHANGED <<taskVars, envVars, started>>
      ]_vars

\* The write of a started task was interrupted: the slot is still open.
C12_Witness ==
    /\ lastOp = "handle_stdin:eintr"
    /\ stdin = "open" /\ "stdin" \in registered
    /\ failures = <<>>

\* C13: an exit status that running() took from the exit code of the
\* terminated child is changed by no later step; and every change of the
\* exit status is made by running(), to the child's exit code, or to the
\* negative kill signal when the task is killed and the child has no exit
\* code yet.
C13_ExitStatusStable ==
    [][ /\ child = "reaped" => exitstatus' = exitstatus
        /\ exitstatus' # exitstatus =>
              /\ lastOp' = "running"
              /\ \/ child # "alive" /\ exitstatus' = <<returncode>>
                 \/ child = "alive" /\ killed
                       /\ exitstatus' = <<-SIGKILL>>
      ]_vars

\* timedout() was called after running() had fetched exit code 1.
C13_Witness ==
    /\ lastOp = "timedout" /\ child = "reaped"
    /\ exitstatus = <<1>>
    /\ failures = <<"Exited with error code 1", "Timed out">>

\* C14: cancel() on a task never started appends the one entry 'Cancelled'
\* and leaves the process handle, the killed flag, the exit status, the
\* three slots, the offset and all buffers as they were.
C14_CancelFrame ==
    [][ (~started /\ lastOp' = "cancel") =>
          /\ failures' = Append(failures, "Cancelled")
          /\ UNCHANGED <<proc, killed, exitstatus, stdin, stdout, stderr,
                         byteswritten, inputbuffer, outputbuffer,
                         errorbuffer, fd_to_buffer, outfile, errfile,
                         outstream, errstream, envVars>>
      ]_vars

C14_Witness ==
    /\ lastOp = "cancel" /\ ~started
    /\ failures = <<"Cancelled">>
    /\ proc = "None" /\ ~killed /\ exitstatus = <<>>

IsWrite(e) == e[2] = "write"

\* What report() wrote, in order.
Written ==
    LET w == SelectSeq(sinklog, IsWrite)
    IN  [i \in 1..Len(w) |-> w[i][3]]

\* C15: report() writes the summary line first, marked FAILURE exactly when
\* the failure list is not empty, then the captured output if there is any,
\* then the error marker and the captured error output if there is any; and
\* every write to a sink is followed at once by a flush of that sink.
C15_ReportOrder ==
    lastOp \in {"report", "report:raised"} =>
        /\ Written =
              <<<<"summary", IF failures # <<>> THEN "FAILURE"
                            ELSE "SUCCESS">>>>
              \o (IF outputbuffer # <<>> THEN <<outputbuffer>> ELSE <<>>)
              \o (IF errorbuffer # <<>>
                  THEN <<<<"Stderr: ">>, errorbuffer>> ELSE <<>>)
        /\ \A i \in DOMAIN sinklog :
              IsWrite(sinklog[i]) =>
                  /\ i < Len(sinklog)
                  /\ sinklog[i + 1] = <<sinklog[i][1], "flush", <<>>>>

\* C16: in every step the failure list before the step is a prefix of the
\* failure list after it.
C16_AppendOnly ==
    [][ /\ Len(failures') >= Len(failures)
        /\ SubSeq(failures', 1, Len(failures)) = failures
      ]_vars

\* An I/O error was recorded, then the exit code.
C16_Witness ==
    /\ lastOp = "running"
    /\ failures = <<"OSError", "Exited with error code 1">>

\* The bytes after the last terminator (LF or CR) of a byte string.
RECURSIVE AfterLastTerminator(_)
AfterLastTerminator(b) ==
    IF b = <<>> \/ b[Len(b)] \in {"LF", "CR"} THEN <<>>
    ELSE Append(AfterLastTerminator(SubSeq(b, 1, Len(b) - 1)), b[Len(b)])

\* C17: in a call with a descriptor, buffering on and completion not
\* forced, when the retained fragment followed by the chunk does not end
\* with a terminator, the bytes after its last terminator become the
\* retained fragment and are not emitted, and the complete lines before
\* them are emitted in order; when it ends with a terminator, nothing is
\* retained.
C17_Retention ==
    [][ (lastOp' = "framer:feed" /\ opts.buffer_lines) =>
          LET chunk   == SubSeq(fed', Len(fed) + 1, Len(fed'))
              cat     == fd_to_buffer.out \o chunk
              rest    == AfterLastTerminator(cat)
              emitted == SubSeq(outstream', Len(outstream) + 1,
                                Len(outstream'))
          IN  /\ fd_to_buffer'.out = rest
              /\ Rejoin(emitted) =
                    Terminators(SubSeq(cat, 1, Len(cat) - Len(rest)))
      ]_vars

\* C18: 0 <= byteswritten <= len(inputbuffer) always; only a write of
\* handle_stdin changes byteswritten, and never downwards; and when the
\* input slot is closed by anything but a fatal write error, byteswritten
\* is the length of the buffer.
C18_OffsetInvariant ==
    [][ /\ 0 <= byteswritten' /\ byteswritten' <= inputbuffer'
        /\ byteswritten' >= byteswritten
        /\ byteswritten' # byteswritten => lastOp' = "handle_stdin:data"
        /\ (stdin # "None" /\ stdin' = "None"
               /\ lastOp' # "handle_stdin:fatal")
              => byteswritten' = inputbuffer
      ]_vars

\* C19: whenever running() returns False on a started task the process
\* handle is released, the killed path with no exit code included; and a
\* released handle is not held again, so it is released once.
C19_HandleReleased ==
    [][ /\ (started /\ lastOp' = "running" /\ ret' = "False")
              => proc' = "None"
        /\ (started /\ proc = "None") => proc' = "None"
      ]_vars

\* C20: a descriptor is registered exactly when its slot is not null; the
\* input descriptor is never registered without input; each descriptor is
\* unregistered at most once; and when running() has returned False no
\* descriptor is registered and both files of the writer are closed.
C20_Registration ==
    /\ "stdin" \in registered <=> stdin # "None"
    /\ "stdout" \in registered <=> stdout # "None"
    /\ "stderr" \in registered <=> stderr # "None"
    /\ inputbuffer = 0 => "stdin" \notin registered
    /\ \A d \in {"stdin", "stdout", "stderr"} : unregisters[d] <= 1
    /\ (lastOp = "running" /\ ret = "False") =>
          /\ registered = {}
          /\ outfile = "None" /\ errfile = "None"

\* running() returned False on a task with a writer and input: the three
\* descriptors were each unregistered once.
C20_Witness ==
    /\ lastOp = "running" /\ ret = "False" /\ writer
    /\ unregisters = [stdin |-> 1, stdout |-> 1, stderr |-> 1]

====
